---- MODULE Spec2Model ----
(***************************************************************************)
(* A model of ActionState (src/src/action_state.rs): the map from action   *)
(* to ActionData and the operations press, release, consume, consume_all,  *)
(* release_all, update, tick and apply_diff.  ButtonState and Timing live  *)
(* in modules of the crate that are not part of the sources at hand; they  *)
(* are modelled from their description in spec.md.                         *)
(***************************************************************************)
EXTENDS Integers, Sequences, FiniteSets, TLC

(* ---------------------------- bounds ----------------------------------- *)

\* instants are 0..MaxInstant (a monotonic clock, capped)
MaxInstant == 1

\* the f32 values a batch or a ValueChanged diff may carry are 0..MaxValue
MaxValue == 1

\* the action identifiers (tests::Action has Run, Jump, Hide)
Actions == {"Run", "Jump"}

Instants == 0..MaxInstant

Values == 0..MaxValue

\* Option<T>: None is the empty tuple, Some(x) a tuple holding x
None == <<>>

Some(x) == <<x>>

\* the 2D samples an AxisPairChanged diff may carry (integer lengths)
AxisSamples == {<<1, 0>>}

\* the Option<DualAxisData> values
AxisPairs == {None} \cup {Some(p) : p \in AxisSamples}

Max(a, b) == IF a >= b THEN a ELSE b

(* ------------------------- ButtonState --------------------------------- *)

ButtonState == {"Pressed", "JustPressed", "Released", "JustReleased"}

bs_pressed(s) == s \in {"Pressed", "JustPressed"}

bs_released(s) == s \in {"Released", "JustReleased"}

bs_just_pressed(s) == s = "JustPressed"

bs_just_released(s) == s = "JustReleased"

bs_press(s) == IF bs_released(s) THEN "JustPressed" ELSE s

bs_release(s) == IF bs_pressed(s) THEN "JustReleased" ELSE s

bs_tick(s) ==
    CASE s = "JustPressed" -> "Pressed"
      [] s = "JustReleased" -> "Released"
      [] OTHER -> s

(* ----------------------------- Timing ---------------------------------- *)

TimingDefault ==
    [instant_started |-> None, current_duration |-> 0, previous_duration |-> 0]

timing_flip(t) ==
    [instant_started |-> None,
     current_duration |-> 0,
     previous_duration |-> t.current_duration]

timing_tick(t, current_instant, previous_instant) ==
    LET started == IF t.instant_started = None
                   THEN current_instant
                   ELSE t.instant_started[1]
    IN [t EXCEPT !.instant_started = Some(started),
                 !.current_duration =
                     Max(0, current_instant - Max(started, previous_instant))]

(* --------------------------- ActionData -------------------------------- *)

ActionDataDefault ==
    [state |-> "Released",
     value |-> 0,
     axis_pair |-> None,
     timing |-> TimingDefault,
     consumed |-> FALSE]

\* length of a 2D sample; the samples used have integer lengths
axis_length(p) ==
    CHOOSE n \in 0..(p[1] + p[2]) : n * n = p[1] * p[1] + p[2] * p[2]

(* --------------------------- ActionState ------------------------------- *)

\* ad is the HashMap<A, ActionData>: a function whose domain is keys()
keys(ad) == DOMAIN ad

action_data_of(ad, a) == IF a \in DOMAIN ad THEN Some(ad[a]) ELSE None

set_action_data(ad, a, data) ==
    [x \in (DOMAIN ad) \cup {a} |-> IF x = a THEN data ELSE ad[x]]

\* the `match self.action_data_mut(action)` prologue of press/release/consume
init_entry(ad, a) ==
    IF a \in DOMAIN ad THEN ad ELSE set_action_data(ad, a, ActionDataDefault)

\* press without the check of `consumed` (lines 331-334 left out)
press_unchecked(ad, a) ==
    LET m == init_entry(ad, a)
        d == m[a]
        t == IF bs_released(d.state) THEN timing_flip(d.timing) ELSE d.timing
    IN [m EXCEPT ![a] = [d EXCEPT !.timing = t, !.state = bs_press(d.state)]]

\* press flipping the timing on every call, not only on a released action
press_always_flips(ad, a) ==
    LET m == init_entry(ad, a)
        d == m[a]
    IN IF d.consumed
       THEN m
       ELSE [m EXCEPT ![a] = [d EXCEPT !.timing = timing_flip(d.timing),
                                       !.state = bs_press(d.state)]]

press(ad, a) ==
    LET m == init_entry(ad, a)
        d == m[a]
    IN IF d.consumed
       THEN m
       ELSE LET t == IF bs_released(d.state) THEN timing_flip(d.timing)
                                             ELSE d.timing
            IN [m EXCEPT ![a] = [d EXCEPT !.timing = t,
                                          !.state = bs_press(d.state)]]

\* release leaving `consumed` as it is (line 358 left out)
release_keeps_consumed(ad, a) ==
    LET m == init_entry(ad, a)
        d == m[a]
        t == IF bs_pressed(d.state) THEN timing_flip(d.timing) ELSE d.timing
    IN [m EXCEPT ![a] = [d EXCEPT !.timing = t,
                                  !.state = bs_release(d.state)]]

\* release leaving the button state as it is (line 364 left out)
release_keeps_state(ad, a) ==
    LET m == init_entry(ad, a)
        d == m[a]
        t == IF bs_pressed(d.state) THEN timing_flip(d.timing) ELSE d.timing
    IN [m EXCEPT ![a] = [d EXCEPT !.consumed = FALSE, !.timing = t]]

release(ad, a) ==
    LET m == init_entry(ad, a)
        d == m[a]
        t == IF bs_pressed(d.state) THEN timing_flip(d.timing) ELSE d.timing
    IN [m EXCEPT ![a] = [d EXCEPT !.consumed = FALSE,
                                  !.timing = t,
                                  !.state = bs_release(d.state)]]

\* consume flipping the timing only when the action was pressed, as release does
consume_flips_on_edge(ad, a) ==
    LET m == init_entry(ad, a)
        d == m[a]
        t == IF bs_pressed(d.state) THEN timing_flip(d.timing) ELSE d.timing
    IN [m EXCEPT ![a] = [d EXCEPT !.consumed = TRUE,
                                  !.state = bs_release(d.state),
                                  !.timing = t]]

consume(ad, a) ==
    LET m == init_entry(ad, a)
        d == m[a]
    IN [m EXCEPT ![a] = [d EXCEPT !.consumed = TRUE,
                                  !.state = bs_release(d.state),
                                  !.timing = timing_flip(d.timing)]]

\* consume / release touch one entry only, so the iteration order over
\* keys() does not matter
consume_all(ad) == [a \in DOMAIN ad |-> consume(ad, a)[a]]

\* release_all releasing the pressed actions only, not every key
release_all_pressed_only(ad) ==
    [a \in DOMAIN ad |-> IF bs_pressed(ad[a].state) THEN release(ad, a)[a] ELSE ad[a]]

\* release_all emptying the map instead of releasing its entries
release_all_clears(ad) == <<>>

release_all(ad) == [a \in DOMAIN ad |-> release(ad, a)[a]]

\* the Occupied arm copying the incoming button state instead of merging it
update_occupied_copies_state(entry, action_datum) ==
    [entry EXCEPT !.state = action_datum.state,
                  !.axis_pair = action_datum.axis_pair,
                  !.value = action_datum.value]

\* the Entry::Occupied arm of update
update_occupied(entry, action_datum) ==
    [entry EXCEPT !.state = IF bs_pressed(action_datum.state)
                            THEN bs_press(entry.state)
                            ELSE bs_release(entry.state),
                  !.axis_pair = action_datum.axis_pair,
                  !.value = action_datum.value]

\* update treating an absent action as a default entry and merging into it
update_merges_absent(ad, batch) ==
    [a \in (DOMAIN ad) \cup (DOMAIN batch) |->
        IF a \notin DOMAIN batch THEN ad[a]
        ELSE IF a \in DOMAIN ad THEN update_occupied(ad[a], batch[a])
        ELSE update_occupied(ActionDataDefault, batch[a])]

\* update storing the incoming datum over an existing entry, as insert does
update_replaces(ad, batch) ==
    [a \in (DOMAIN ad) \cup (DOMAIN batch) |->
        IF a \in DOMAIN batch THEN batch[a] ELSE ad[a]]

\* batch is the incoming HashMap<A, ActionData>
update(ad, batch) ==
    [a \in (DOMAIN ad) \cup (DOMAIN batch) |->
        IF a \notin DOMAIN batch THEN ad[a]
        ELSE IF a \in DOMAIN ad THEN update_occupied(ad[a], batch[a])
        ELSE batch[a]]

\* tick advancing the timing only (lines 174-176 left out)
tick_datum_keeps_state(d, current_instant, previous_instant) ==
    IF ~d.consumed
    THEN [d EXCEPT !.timing =
              timing_tick(d.timing, current_instant, previous_instant)]
    ELSE d

\* tick advancing the timing of consumed actions too (line 181 left out)
tick_datum_ticks_consumed(d, current_instant, previous_instant) ==
    [d EXCEPT !.state = bs_tick(d.state),
              !.timing = timing_tick(d.timing, current_instant, previous_instant)]

\* tick ending the consumption of an action at the end of the frame
tick_datum_clears_consumed(d, current_instant, previous_instant) ==
    [d EXCEPT !.state = bs_tick(d.state),
              !.consumed = FALSE,
              !.timing = IF ~d.consumed
                         THEN timing_tick(d.timing, current_instant, previous_instant)
                         ELSE d.timing]

\* tick leaving a consumed action alone, button state and timing alike
tick_datum_skips_consumed(d, current_instant, previous_instant) ==
    IF ~d.consumed
    THEN [d EXCEPT !.state = bs_tick(d.state),
                   !.timing = timing_tick(d.timing, current_instant, previous_instant)]
    ELSE d

tick_datum(d, current_instant, previous_instant) ==
    LET d1 == [d EXCEPT !.state = bs_tick(d.state)]
    IN IF ~d1.consumed
       THEN [d1 EXCEPT !.timing =
                 timing_tick(d1.timing, current_instant, previous_instant)]
       ELSE d1

tick(ad, current_instant, previous_instant) ==
    [a \in DOMAIN ad |-> tick_datum(ad[a], current_instant, previous_instant)]

(* ------------------------------ queries -------------------------------- *)

value(ad, a) == IF a \in DOMAIN ad THEN ad[a].value ELSE 0

axis_pair(ad, a) == IF a \in DOMAIN ad THEN ad[a].axis_pair ELSE None

consumed(ad, a) == IF a \in DOMAIN ad THEN ad[a].consumed ELSE FALSE

pressed(ad, a) == IF a \in DOMAIN ad THEN bs_pressed(ad[a].state) ELSE FALSE

just_pressed(ad, a) ==
    IF a \in DOMAIN ad THEN bs_just_pressed(ad[a].state) ELSE FALSE

\* released answering FALSE for an action without an entry, as the other
\* boolean accessors do
released_unknown_false(ad, a) ==
    IF a \in DOMAIN ad THEN bs_released(ad[a].state) ELSE FALSE

\* released reading only the just-released state of an entry
released_only_just(ad, a) ==
    IF a \in DOMAIN ad THEN bs_just_released(ad[a].state) ELSE TRUE

released(ad, a) == IF a \in DOMAIN ad THEN bs_released(ad[a].state) ELSE TRUE

just_released(ad, a) ==
    IF a \in DOMAIN ad THEN bs_just_released(ad[a].state) ELSE FALSE

instant_started(ad, a) ==
    IF a \in DOMAIN ad THEN ad[a].timing.instant_started ELSE None

current_duration(ad, a) ==
    IF a \in DOMAIN ad THEN ad[a].timing.current_duration ELSE 0

previous_duration(ad, a) ==
    IF a \in DOMAIN ad THEN ad[a].timing.previous_duration ELSE 0

\* the list accessors, as sets: the Vec is in the map's iteration order
get_just_pressed(ad) == {a \in DOMAIN ad : bs_just_pressed(ad[a].state)}

get_just_released(ad) == {a \in DOMAIN ad : bs_just_released(ad[a].state)}

(* ----------------------------- ActionDiff ------------------------------ *)

ActionDiff ==
    [kind : {"Pressed", "Released"}, action : Actions]
    \cup [kind : {"ValueChanged"}, action : Actions, value : Values]
    \cup [kind : {"AxisPairChanged"}, action : Actions, axis_pair : AxisSamples]

\* apply_diff with ValueChanged and AxisPairChanged releasing instead of
\* pressing, and Released keeping the axis pair
apply_diff_misrouted(ad, diff) ==
    LET a == diff.action
    IN CASE diff.kind = "Pressed" ->
              LET m == press(ad, a)
              IN [m EXCEPT ![a].value = 1]
         [] diff.kind = "Released" ->
              LET m == release(ad, a)
              IN [m EXCEPT ![a].value = 0]
         [] diff.kind = "ValueChanged" ->
              LET m == release(ad, a)
              IN [m EXCEPT ![a].value = diff.value]
         [] diff.kind = "AxisPairChanged" ->
              LET m == release(ad, a)
              IN [m EXCEPT ![a].axis_pair = Some(diff.axis_pair),
                           ![a].value = axis_length(diff.axis_pair)]

\* apply_diff with a Released diff releasing every action of the map
apply_diff_releases_all(ad, diff) ==
    LET a == diff.action
    IN CASE diff.kind = "Pressed" ->
              LET m == press(ad, a)
              IN [m EXCEPT ![a].value = 1]
         [] diff.kind = "Released" ->
              LET m == release_all(release(ad, a))
              IN [m EXCEPT ![a].value = 0, ![a].axis_pair = None]
         [] diff.kind = "ValueChanged" ->
              LET m == press(ad, a)
              IN [m EXCEPT ![a].value = diff.value]
         [] diff.kind = "AxisPairChanged" ->
              LET m == press(ad, a)
              IN [m EXCEPT ![a].axis_pair = Some(diff.axis_pair),
                           ![a].value = axis_length(diff.axis_pair)]

apply_diff(ad, diff) ==
    LET a == diff.action
    IN CASE diff.kind = "Pressed" ->
              LET m == press(ad, a)
              IN [m EXCEPT ![a].value = 1]
         [] diff.kind = "Released" ->
              LET m == release(ad, a)
              IN [m EXCEPT ![a].value = 0, ![a].axis_pair = None]
         [] diff.kind = "ValueChanged" ->
              LET m == press(ad, a)
              IN [m EXCEPT ![a].value = diff.value]
         [] diff.kind = "AxisPairChanged" ->
              LET m == press(ad, a)
              IN [m EXCEPT ![a].axis_pair = Some(diff.axis_pair),
                           ![a].value = axis_length(diff.axis_pair)]

(* ------------------------- the state machine --------------------------- *)

VARIABLES
    action_data,   \* ActionState::action_data
    now,           \* the instant of the latest tick (the caller's clock)
    changed,       \* history: actions that went pressed<->released since the last tick
    scen,          \* history: the call sequence in progress, if it is one followed
    tracking,      \* history: the names of the call sequences followed (fixed)
    ever_named,    \* history: the actions some call has named so far
    reference      \* a second ActionState, driven by direct calls (SpecDiff only)

vars == <<action_data, now, changed, scen, tracking, ever_named, reference>>

NoAction == "-"

Idle == [name |-> "idle"]

\* the ActionData a batch may carry, as the binding resolution builds it:
\* default timing, consumed = false; a released action has value 0 and no
\* axis sample; a pressed one has a value, or an axis sample and its length
BatchData ==
    [state : {"Released", "JustReleased"},
     value : {0},
     axis_pair : {None},
     timing : {TimingDefault},
     consumed : {FALSE}]
    \cup
    [state : {"Pressed", "JustPressed"},
     value : Values \ {0},
     axis_pair : {None},
     timing : {TimingDefault},
     consumed : {FALSE}]
    \cup
    {[state |-> st,
      value |-> axis_length(p),
      axis_pair |-> Some(p),
      timing |-> TimingDefault,
      consumed |-> FALSE] : st \in {"Pressed", "JustPressed"}, p \in AxisSamples}

Batches == UNION {[S -> BatchData] : S \in SUBSET Actions}

\* actions whose pressed/released reading differs between ad and ad2
Flipped(ad, ad2) == {a \in Actions : pressed(ad, a) # pressed(ad2, a)}

Sat(n) == IF n < 2 THEN n + 1 ELSE n

\* The call sequences that operation `op` (on action `a`, for press, release
\* and consume; with argument `arg`, the batch of update, the diff of
\* apply_diff, the two instants of tick) begins when it takes ad to ad2.
ScenStart(op, a, arg, ad, ad2) ==
    (IF op \notin {"update", "apply_diff"}
     THEN {[name |-> "call", op |-> op, a |-> a, arg |-> arg]}
     ELSE {})
    \cup
    (IF op = "update"
     THEN {[name |-> "updated", batch |-> arg, ticked |-> FALSE]}
     ELSE {})
    \cup
    (IF op = "apply_diff"
     THEN {[name |-> "diff_pair", first |-> arg, second |-> None]}
     ELSE {})
    \cup
    (IF op = "consume"
     THEN {[name |-> "consume_release_press", a |-> a, step |-> 1, via |-> "-"],
           [name |-> "blocked", a |-> a, pressed_again |-> FALSE, ticks |-> 0,
            others |-> FALSE, timing |-> ad2[a].timing]}
     ELSE {})
    \cup
    (IF op \in {"press", "release"}
     THEN {[name |-> "repeat", op |-> op, a |-> a, again |-> FALSE]}
     ELSE {})
    \cup
    (IF op = "press" /\ released(ad, a) /\ just_pressed(ad2, a)
     THEN {[name |-> "collapse", edge |-> "press", a |-> a, ticks |-> 0]}
     ELSE {})
    \cup
    (IF op = "release" /\ pressed(ad, a) /\ just_released(ad2, a)
     THEN {[name |-> "collapse", edge |-> "release", a |-> a, ticks |-> 0]}
     ELSE {})
    \cup
    (IF op = "tick" /\ scen.name = "start"
     THEN {[name |-> "lifecycle", a |-> b, step |-> 1] : b \in Actions}
     ELSE {})

\* The sequence in progress, continued by the operation: `named` are the
\* actions the operation names, `rel` those it releases.  Empty if the
\* operation is not a next call of the sequence.
ScenStep(op, a, arg, named, rel) ==
    CASE scen.name = "updated" ->
           IF op = "tick" /\ ~scen.ticked
           THEN {[scen EXCEPT !.ticked = TRUE]}
           ELSE {}
      [] scen.name = "diff_pair" ->
           IF op = "apply_diff" /\ scen.second = None /\ arg.action # scen.first.action
           THEN {[scen EXCEPT !.second = Some(arg)]}
           ELSE {}
      [] scen.name = "consume_release_press" ->
           IF scen.step = 1 /\ scen.a \in rel /\ op # "apply_diff"
           THEN {[scen EXCEPT !.step = 2, !.via = op]}
           ELSE IF scen.step = 2 /\ op = "press" /\ a = scen.a
           THEN {[scen EXCEPT !.step = 3]}
           ELSE {}
      [] scen.name = "blocked" ->
           IF op = "press" /\ a = scen.a
           THEN {[scen EXCEPT !.pressed_again = TRUE]}
           ELSE IF op = "tick"
           THEN {[scen EXCEPT !.ticks = Sat(@)]}
           ELSE IF scen.a \notin named /\ op \notin {"consume_all", "release_all"}
           THEN {[scen EXCEPT !.others = TRUE]}
           ELSE {}
      [] scen.name = "repeat" ->
           IF op = scen.op /\ a = scen.a
           THEN {[scen EXCEPT !.again = TRUE]}
           ELSE {}
      [] scen.name = "collapse" ->
           IF op = "tick" /\ scen.ticks < 2
           THEN {[scen EXCEPT !.ticks = @ + 1]}
           ELSE {}
      [] scen.name = "lifecycle" ->
           IF \/ scen.step = 1 /\ op = "press" /\ a = scen.a
              \/ scen.step = 2 /\ op = "tick"
              \/ scen.step = 3 /\ op = "release" /\ a = scen.a
              \/ scen.step = 4 /\ op = "tick"
           THEN {[scen EXCEPT !.step = @ + 1]}
           ELSE {}
      [] OTHER -> {}

\* the bookkeeping every operation does on the history variables: a
\* sequence is followed from any of its first calls on, or not at all
Record(op, a, arg, named, rel, ad2) ==
    /\ changed' = IF op = "tick" THEN {} ELSE changed \cup Flipped(action_data, ad2)
    /\ scen' \in {Idle}
                \cup {s \in ScenStart(op, a, arg, action_data, ad2) : s.name \in tracking}
                \cup ScenStep(op, a, arg, named, rel)
    /\ ever_named' = IF op \in {"consume_all", "release_all"}
                     THEN ever_named
                     ELSE ever_named \cup named
    /\ UNCHANGED tracking

InitTracking(names) ==
    /\ action_data = <<>>
    /\ now = 0
    /\ changed = {}
    /\ scen = [name |-> "start"]
    /\ tracking = names
    /\ ever_named = {}
    /\ reference = <<>>

Init == InitTracking({})

Press(a) ==
    /\ action_data' = press(action_data, a)
    /\ Record("press", a, None, {a}, {}, action_data')
    /\ UNCHANGED <<now, reference>>

Release(a) ==
    /\ action_data' = release(action_data, a)
    /\ Record("release", a, None, {a}, {a}, action_data')
    /\ UNCHANGED <<now, reference>>

Consume(a) ==
    /\ action_data' = consume(action_data, a)
    /\ Record("consume", a, None, {a}, {}, action_data')
    /\ UNCHANGED <<now, reference>>

ConsumeAll ==
    /\ action_data' = consume_all(action_data)
    /\ Record("consume_all", NoAction, None, DOMAIN action_data, {}, action_data')
    /\ UNCHANGED <<now, reference>>

ReleaseAll ==
    /\ action_data' = release_all(action_data)
    /\ Record("release_all", NoAction, None, DOMAIN action_data, DOMAIN action_data,
              action_data')
    /\ UNCHANGED <<now, reference>>

Update(batch) ==
    /\ action_data' = update(action_data, batch)
    /\ Record("update", NoAction, batch, DOMAIN batch,
              {a \in DOMAIN batch : bs_released(batch[a].state)}, action_data')
    /\ UNCHANGED <<now, reference>>

\* the caller passes the instant of this frame and that of the previous one
Tick(current_instant, previous_instant) ==
    /\ previous_instant = now
    /\ current_instant >= previous_instant
    /\ action_data' = tick(action_data, current_instant, previous_instant)
    /\ now' = current_instant
    /\ Record("tick", NoAction, <<current_instant, previous_instant>>, {}, {}, action_data')
    /\ UNCHANGED reference

ApplyDiff(diff) ==
    /\ action_data' = apply_diff(action_data, diff)
    /\ Record("apply_diff", diff.action, diff, {diff.action},
              IF diff.kind = "Released" THEN {diff.action} ELSE {}, action_data')
    /\ UNCHANGED <<now, reference>>

Next ==
    \/ \E a \in Actions : Press(a)
    \/ \E a \in Actions : Release(a)
    \/ \E a \in Actions : Consume(a)
    \/ ConsumeAll
    \/ ReleaseAll
    \/ \E batch \in Batches : Update(batch)
    \/ \E current_instant \in Instants, previous_instant \in Instants :
         Tick(current_instant, previous_instant)
    \/ \E diff \in ActionDiff : ApplyDiff(diff)

\* every operation, in any order, from an empty ActionState
Spec == Init /\ [][Next]_vars

\* the same program, the history following consume, release, press; the
\* decay of a just-pressed / just-released state; and the first calls
InitCalls == InitTracking({"consume_release_press", "collapse", "lifecycle"})

SpecCalls == InitCalls /\ [][Next]_vars

\* the same program, the history following repeated calls of press or release
InitRepeat == InitTracking({"repeat"})

SpecRepeat == InitRepeat /\ [][Next]_vars

\* the same program, the history following the calls made after a consume
InitBlocked == InitTracking({"blocked"})

SpecBlocked == InitBlocked /\ [][Next]_vars

\* the same program, the history keeping the latest call, update and
\* apply_diff apart
InitLatest == InitTracking({"call"})

SpecLatest == InitLatest /\ [][Next]_vars

\* the same program, the history following an update and the tick after it
InitUpdated == InitTracking({"updated"})

SpecUpdated == InitUpdated /\ [][Next]_vars

\* the same program, the history following two diffs for different actions
InitDiffPair == InitTracking({"diff_pair"})

SpecDiffPair == InitDiffPair /\ [][Next]_vars

\* a timing that has run: started at instant 0, held for 1 after 1
TimingHeld ==
    [instant_started |-> Some(0), current_duration |-> 1, previous_duration |-> 1]

\* ActionData a caller of update may hand in, every field varied: value 0
\* without an axis pair, or an axis pair with its length as value
ActionDataSamples ==
    [state : ButtonState,
     value : {0},
     axis_pair : {None},
     timing : {TimingDefault, TimingHeld},
     consumed : BOOLEAN]
    \cup
    {[state |-> st,
      value |-> axis_length(p),
      axis_pair |-> Some(p),
      timing |-> t,
      consumed |-> c] : st \in ButtonState, p \in AxisSamples,
                        t \in {TimingDefault, TimingHeld}, c \in BOOLEAN}

\* the batches of at most one action of such data
BatchesAny ==
    UNION {[S -> ActionDataSamples] : S \in {T \in SUBSET Actions : Cardinality(T) <= 1}}

NextInsert == \E batch \in BatchesAny : Update(batch)

\* update alone, called with any data, the history following each update
SpecInsert == InitUpdated /\ [][NextInsert]_vars

\* The reference of the diff replay: the direct calls a diff stands for, a
\* press or a release followed by assignments to value and axis_pair.
direct(ad, diff) ==
    LET a == diff.action
        m == IF diff.kind = "Released" THEN release(ad, a) ELSE press(ad, a)
        v == CASE diff.kind = "Pressed" -> 1
               [] diff.kind = "Released" -> 0
               [] diff.kind = "ValueChanged" -> diff.value
               [] diff.kind = "AxisPairChanged" -> axis_length(diff.axis_pair)
        p == CASE diff.kind = "Released" -> None
               [] diff.kind = "AxisPairChanged" -> Some(diff.axis_pair)
               [] OTHER -> m[a].axis_pair
    IN set_action_data(m, a, [m[a] EXCEPT !.value = v, !.axis_pair = p])

\* a diff applied with apply_diff, the reference driven by the direct calls
DiffReplay(diff) ==
    /\ action_data' = apply_diff(action_data, diff)
    /\ reference' = direct(reference, diff)
    /\ UNCHANGED <<now, changed, scen, tracking, ever_named>>

\* both ActionStates tick at the end of a frame
TickBoth(current_instant, previous_instant) ==
    /\ previous_instant = now
    /\ current_instant >= previous_instant
    /\ action_data' = tick(action_data, current_instant, previous_instant)
    /\ reference' = tick(reference, current_instant, previous_instant)
    /\ now' = current_instant
    /\ UNCHANGED <<changed, scen, tracking, ever_named>>

NextDiff ==
    \/ \E diff \in ActionDiff : DiffReplay(diff)
    \/ \E current_instant \in Instants, previous_instant \in Instants :
         TickBoth(current_instant, previous_instant)

\* a stream of diffs replayed onto an empty ActionState, frame after frame
SpecDiff == Init /\ [][NextDiff]_vars

(* ------------------------------ claims --------------------------------- *)

Known == DOMAIN action_data

\* C1: in every reachable state, an action whose consumed flag is true is
\* not pressed.
C1_ConsumedNotPressed ==
    \A a \in Actions : consumed(action_data, a) => ~pressed(action_data, a)

\* C2: after consume(a), a release(a), a release_all() or an update whose
\* batch carries a released datum for a leaves consumed(a) false, and a
\* press(a) that follows makes pressed(a) true.
C2_ReleaseEndsConsumption ==
    scen.name = "consume_release_press" =>
        /\ scen.step >= 2 => ~consumed(action_data, scen.a)
        /\ scen.step = 3 => pressed(action_data, scen.a)

\* C3: after consume(a), any number of press(a) calls, with ticks and
\* operations on other actions in between but no release of a, leave a
\* released and not pressed.
C3_ConsumptionBlocksPress ==
    scen.name = "blocked" =>
        /\ released(action_data, scen.a)
        /\ ~pressed(action_data, scen.a)

\* C3 witness: press(a) was called after consume(a), with a tick and an
\* operation on the other action in between, and a is still released.
C3_Witness ==
    /\ scen.name = "blocked"
    /\ scen.pressed_again
    /\ scen.ticks >= 1
    /\ scen.others
    /\ released(action_data, scen.a)
    /\ \E b \in Actions \ {scen.a} : pressed(action_data, b)

\* C4: consume(a), then release(a), then press(a) leaves a pressed and not
\* consumed.
C4_ReleaseClearsConsumption ==
    (/\ scen.name = "consume_release_press"
     /\ scen.step = 3
     /\ scen.via = "release") =>
        /\ pressed(action_data, scen.a)
        /\ ~consumed(action_data, scen.a)

\* C4 witness: the three calls were made, after a tick, and the action is
\* just pressed.
C4_Witness ==
    /\ scen.name = "consume_release_press"
    /\ scen.step = 3
    /\ scen.via = "release"
    /\ just_pressed(action_data, scen.a)
    /\ now > 0

\* C5: from an empty ActionState: a tick leaves an untouched action
\* released and not just released; press(a) makes it pressed and just
\* pressed; a tick leaves it pressed, not just pressed; release(a) makes it
\* released and just released; a tick leaves it released, not just released.
C5_PressReleaseLifecycle ==
    scen.name = "lifecycle" =>
        LET a == scen.a
            ad == action_data
        IN /\ scen.step = 1 =>
                released(ad, a) /\ ~just_released(ad, a) /\ ~pressed(ad, a)
           /\ scen.step = 2 => pressed(ad, a) /\ just_pressed(ad, a)
           /\ scen.step = 3 => pressed(ad, a) /\ ~just_pressed(ad, a)
           /\ scen.step = 4 =>
                released(ad, a) /\ just_released(ad, a) /\ ~pressed(ad, a)
           /\ scen.step = 5 => released(ad, a) /\ ~just_released(ad, a)

\* C5 witness: the five calls were made and the action is known, released.
C5_Witness ==
    /\ scen.name = "lifecycle"
    /\ scen.step = 5
    /\ scen.a \in Known
    /\ action_data[scen.a].state = "Released"

\* the datum press / release / consume work on: the entry, or the default
\* one they insert for an absent action
Datum(ad, a) == IF a \in DOMAIN ad THEN ad[a] ELSE ActionDataDefault

C6_Step ==
    scen'.name = "repeat" =>
        LET a == scen'.a
            before == Datum(action_data, a)
            after == action_data'[a]
        IN /\ scen'.again => after = before
           /\ after.timing \in {before.timing, timing_flip(before.timing)}
           /\ (/\ scen'.op = "press"
               /\ ~scen'.again
               /\ bs_released(before.state)
               /\ ~before.consumed) =>
                  /\ after.state = "JustPressed"
                  /\ after.timing = timing_flip(before.timing)
           /\ (/\ scen'.op = "release"
               /\ ~scen'.again
               /\ bs_pressed(before.state)) =>
                  /\ after.state = "JustReleased"
                  /\ after.timing = timing_flip(before.timing)

\* C6: a call of press(a) (or release(a)) that follows a call of the same
\* operation with no other call in between changes nothing in a's datum, so
\* N calls yield the datum of one; the first call leaves the timing as it
\* was or flipped once, and on a released, unconsumed action press yields
\* JustPressed with the timing flipped once (release: on a pressed action,
\* JustReleased with the timing flipped once).
C6_RepeatIdempotent == [][C6_Step]_vars

\* C6 witness: press(a) was called twice in a row on an action released for
\* some time; it is just pressed and the duration of the released period is
\* still in previous_duration (a second flip would have zeroed it).
C6_Witness ==
    /\ scen.name = "repeat"
    /\ scen.op = "press"
    /\ scen.again
    /\ just_pressed(action_data, scen.a)
    /\ previous_duration(action_data, scen.a) > 0

\* C7: one tick after a press that made the action JustPressed it is
\* pressed and not just pressed; after a second tick with no call in between
\* its button state is still Pressed.  Likewise JustReleased and Released.
C7_TickCollapsesOnce ==
    scen.name = "collapse" =>
        LET st == action_data[scen.a].state
        IN /\ scen.edge = "press" =>
                /\ scen.ticks = 0 => st = "JustPressed"
                /\ scen.ticks = 1 => bs_pressed(st) /\ ~bs_just_pressed(st)
                /\ scen.ticks = 2 => st = "Pressed"
           /\ scen.edge = "release" =>
                /\ scen.ticks = 0 => st = "JustReleased"
                /\ scen.ticks = 1 => bs_released(st) /\ ~bs_just_released(st)
                /\ scen.ticks = 2 => st = "Released"

\* C7 witness: two ticks followed a press that made the action JustPressed.
C7_Witness ==
    /\ scen.name = "collapse"
    /\ scen.edge = "press"
    /\ scen.ticks = 2
    /\ pressed(action_data, scen.a)
    /\ now > 0

\* C8: an action that changed between pressed and released since the last
\* tick has instant_started = None.
C8_InstantClearedOnChange ==
    \A a \in changed : instant_started(action_data, a) = None

C9_Step ==
    \A current_instant \in Instants, previous_instant \in Instants :
        Tick(current_instant, previous_instant) =>
            \A a \in Known :
                action_data'[a].timing =
                    IF action_data[a].consumed
                    THEN action_data[a].timing
                    ELSE timing_tick(action_data[a].timing,
                                     current_instant, previous_instant)

\* C9: a tick leaves the timing of every consumed action as it was and
\* advances the timing of every other known action; so the timing of an
\* action is the same after any number of ticks made while it is consumed.
C9_TimingFreeze ==
    /\ [][C9_Step]_vars
    /\ [](scen.name = "blocked" => action_data[scen.a].timing = scen.timing)

\* C9 witness: two ticks or more were made since consume(a); a's timing
\* shows no start instant, while another action, not consumed, has a
\* start instant and a duration.
C9_Witness ==
    /\ scen.name = "blocked"
    /\ scen.ticks >= 2
    /\ consumed(action_data, scen.a)
    /\ instant_started(action_data, scen.a) = None
    /\ \E b \in Known \ {scen.a} :
          /\ ~consumed(action_data, b)
          /\ instant_started(action_data, b) # None
          /\ current_duration(action_data, b) > 0

\* C10: after any sequence of diffs applied in order with apply_diff to an
\* empty ActionState, the pressed / released, value and axis_pair readings
\* of every action equal those of the reference driven by the direct calls.
C10_DiffReplayMatchesDirect ==
    \A a \in Actions :
        /\ pressed(action_data, a) = pressed(reference, a)
        /\ released(action_data, a) = released(reference, a)
        /\ value(action_data, a) = value(reference, a)
        /\ axis_pair(action_data, a) = axis_pair(reference, a)

\* C10 witness: diffs of all four kinds have been replayed: one action is
\* released with its value and axis pair cleared after it was pressed, the
\* other is pressed with an axis pair and a value that is not its length.
C10_Witness ==
    \E a \in Known : \E b \in Known \ {a} :
        /\ just_released(action_data, a)
        /\ value(action_data, a) = 0
        /\ axis_pair(action_data, a) = None
        /\ pressed(action_data, b)
        /\ axis_pair(action_data, b) # None
        /\ value(action_data, b) = 0
        /\ reference = action_data

\* C11: an action that no call of press, release, consume, update or
\* apply_diff has named reads as the defaults: not pressed, not just
\* pressed, released, not just released, not consumed, value 0, no axis
\* pair, both durations zero, no instant_started; and the accessors, which
\* every state has been read with, have made no entry for it.
C11_UnknownKeyDefaults ==
    \A a \in Actions \ ever_named :
        /\ ~pressed(action_data, a)
        /\ ~just_pressed(action_data, a)
        /\ released(action_data, a)
        /\ ~just_released(action_data, a)
        /\ ~consumed(action_data, a)
        /\ value(action_data, a) = 0
        /\ axis_pair(action_data, a) = None
        /\ current_duration(action_data, a) = 0
        /\ previous_duration(action_data, a) = 0
        /\ instant_started(action_data, a) = None
        /\ a \notin keys(action_data)

\* C11 witness: one action has never been named while another one has been
\* pressed, given a value and ticked, and whole-map calls have been made
C11_Witness ==
    \E a \in Actions \ ever_named : \E b \in ever_named :
        /\ pressed(action_data, b)
        /\ value(action_data, b) > 0
        /\ current_duration(action_data, b) > 0
        /\ a \notin Known

\* C12: for every action, with an entry or without, released is the
\* negation of pressed, just_pressed implies pressed and just_released
\* implies released.
C12_ReleasedNegatesPressed ==
    \A a \in Actions :
        /\ released(action_data, a) = ~pressed(action_data, a)
        /\ just_pressed(action_data, a) => pressed(action_data, a)
        /\ just_released(action_data, a) => released(action_data, a)

\* C12 witness: an action without an entry, next to one with an entry that
\* has been released for more than a tick
C12_Witness ==
    \E a \in Actions \ Known : \E b \in Known :
        /\ released(action_data, b)
        /\ ~just_released(action_data, b)
        /\ current_duration(action_data, b) > 0

\* C13: update never replaces an existing datum: for every action that had
\* an entry before the call, timing and consumed are what they were; of an
\* action in the batch only state, value and axis_pair are refreshed, value
\* and axis_pair from the incoming datum; an action not in the batch keeps
\* its whole datum.
C13_Step ==
    (scen'.name = "updated" /\ ~scen'.ticked) =>
        \A a \in DOMAIN action_data :
            /\ a \in DOMAIN action_data'
            /\ action_data'[a].timing = action_data[a].timing
            /\ action_data'[a].consumed = action_data[a].consumed
            /\ IF a \in DOMAIN scen'.batch
               THEN /\ action_data'[a].value = scen'.batch[a].value
                    /\ action_data'[a].axis_pair = scen'.batch[a].axis_pair
               ELSE action_data'[a] = action_data[a]

C15_Merged(ad) == DOMAIN ad \cap DOMAIN scen'.batch

\* C15: update merges the button state edge-wise for an action that has an
\* entry: a pressed-like incoming datum makes it pressed, and just pressed
\* only if it was released before the update; a released-like one makes it
\* released, and just released only if it was pressed before the update;
\* after the tick that follows, neither just_pressed nor just_released is set.
C15_StepOriginal ==
    /\ (scen'.name = "updated" /\ ~scen'.ticked) =>
          \A a \in C15_Merged(action_data) :
              IF bs_pressed(scen'.batch[a].state)
              THEN /\ pressed(action_data', a)
                   /\ just_pressed(action_data', a) => released(action_data, a)
              ELSE /\ released(action_data', a)
                   /\ just_released(action_data', a) => pressed(action_data, a)
    /\ (scen.name = "updated" /\ scen'.name = "updated" /\ scen'.ticked /\ ~scen.ticked) =>
          \A a \in DOMAIN scen.batch :
              /\ ~just_pressed(action_data', a)
              /\ ~just_released(action_data', a)

C15_StepAmended ==
    /\ (scen'.name = "updated" /\ ~scen'.ticked) =>
          \A a \in C15_Merged(action_data) :
              IF bs_pressed(scen'.batch[a].state)
              THEN /\ pressed(action_data', a)
                   /\ just_pressed(action_data', a) =
                        (released(action_data, a) \/ just_pressed(action_data, a))
              ELSE /\ released(action_data', a)
                   /\ just_released(action_data', a) =
                        (pressed(action_data, a) \/ just_released(action_data, a))
    /\ (scen.name = "updated" /\ scen'.name = "updated" /\ scen'.ticked /\ ~scen.ticked) =>
          \A a \in DOMAIN scen.batch :
              /\ ~just_pressed(action_data', a)
              /\ ~just_released(action_data', a)

C16_DiffsCommute ==
    \A d1 \in ActionDiff :
        /\ \A b \in Actions \ {d1.action} :
              /\ (b \in keys(apply_diff(action_data, d1))) = (b \in Known)
              /\ b \in Known => apply_diff(action_data, d1)[b] = action_data[b]
        /\ \A d2 \in ActionDiff :
              d1.action # d2.action =>
                  apply_diff(apply_diff(action_data, d1), d2)
                    = apply_diff(apply_diff(action_data, d2), d1)

\* C16 witness: a release diff for one action (pressed before, with an
\* entry) and then an axis-pair diff for another action have been applied,
\* and show in the data of both
C16_Witness ==
    /\ scen.name = "diff_pair"
    /\ scen.second # None
    /\ scen.first.kind = "Released"
    /\ scen.second[1].kind = "AxisPairChanged"
    /\ just_released(action_data, scen.first.action)
    /\ previous_duration(action_data, scen.first.action) > 0
    /\ just_pressed(action_data, scen.second[1].action)
    /\ axis_pair(action_data, scen.second[1].action) # None

\* C17: over every step (press, release, consume, update, tick, apply_diff,
\* consume_all, release_all) the key set only grows; press, release and
\* consume on an action without an entry make its entry, from the defaults;
\* release_all, consume_all and tick neither add nor remove a key.
C17_Step ==
    /\ keys(action_data) \subseteq keys(action_data')
    /\ scen'.name = "call" =>
          /\ scen'.op \in {"press", "release", "consume"} =>
                /\ scen'.a \in keys(action_data')
                /\ scen'.a \notin keys(action_data) =>
                      action_data'[scen'.a] =
                          [ActionDataDefault EXCEPT
                              !.state = IF scen'.op = "press"
                                        THEN "JustPressed" ELSE @,
                              !.consumed = (scen'.op = "consume")]
          /\ scen'.op \in {"release_all", "consume_all", "tick"} =>
                keys(action_data') = keys(action_data)

C17_KeysOnlyGrow == [][C17_Step]_vars

\* C17 witness: release_all has just run on a map in which one action has an
\* entry, held before the call, and the other has none
C17_Witness ==
    /\ scen.name = "call"
    /\ scen.op = "release_all"
    /\ \E a \in Known : \E b \in Actions \ Known :
          /\ just_released(action_data, a)
          /\ previous_duration(action_data, a) > 0

\* C18: previous_duration(a) is the value current_duration(a) had just
\* before the most recent change of a between pressed and released, and
\* current_duration(a) was reset to zero at that change: every step that
\* changes pressed(a) takes current_duration(a) into previous_duration(a)
\* and zeroes current_duration(a), and every other step, a consume on a
\* released or consumed action included, leaves previous_duration(a) alone.
C18_Step ==
    \A a \in Actions :
        IF pressed(action_data', a) # pressed(action_data, a)
        THEN /\ previous_duration(action_data', a) = current_duration(action_data, a)
             /\ current_duration(action_data', a) = 0
        ELSE previous_duration(action_data', a) = previous_duration(action_data, a)

C18_PreviousDurationIsSnapshot == [][C18_Step]_vars

\* C19: after consume(a), from any state, released(a) and consumed(a) are
\* true, just_released(a) is true exactly when a was pressed before the
\* call, and the timing is flipped whether or not an edge occurred:
\* current_duration(a) is zero, instant_started(a) is none and
\* previous_duration(a) is the current_duration(a) of before the call.
C19_StepOriginal ==
    (scen'.name = "call" /\ scen'.op = "consume") =>
        LET a == scen'.a
        IN /\ released(action_data', a)
           /\ consumed(action_data', a)
           /\ just_released(action_data', a) = pressed(action_data, a)
           /\ current_duration(action_data', a) = 0
           /\ instant_started(action_data', a) = None
           /\ previous_duration(action_data', a) = current_duration(action_data, a)

C19_StepAmended ==
    (scen'.name = "call" /\ scen'.op = "consume") =>
        LET a == scen'.a
        IN /\ released(action_data', a)
           /\ consumed(action_data', a)
           /\ just_released(action_data', a) =
                (pressed(action_data, a) \/ just_released(action_data, a))
           /\ current_duration(action_data', a) = 0
           /\ instant_started(action_data', a) = None
           /\ previous_duration(action_data', a) = current_duration(action_data, a)

Orders(S) ==
    {seq \in [1..Cardinality(S) -> S] : \A i, j \in DOMAIN seq : seq[i] = seq[j] => i = j}

RECURSIVE ReleaseEach(_, _)
\* release called for each action of seq in turn
ReleaseEach(ad, seq) ==
    IF seq = <<>> THEN ad ELSE ReleaseEach(release(ad, Head(seq)), Tail(seq))

RECURSIVE ConsumeEach(_, _)
\* consume called for each action of seq in turn
ConsumeEach(ad, seq) ==
    IF seq = <<>> THEN ad ELSE ConsumeEach(consume(ad, Head(seq)), Tail(seq))

\* C20: after release_all every key is released and not consumed, after
\* consume_all every key is released and consumed; the ActionState is the
\* one that release(a), or consume(a), called once for each key in any
\* order gives; actions without an entry stay without one.
C20_Step ==
    scen'.name = "call" =>
        /\ scen'.op = "release_all" =>
              /\ \A a \in keys(action_data') :
                    released(action_data', a) /\ ~consumed(action_data', a)
              /\ \A seq \in Orders(keys(action_data)) :
                    action_data' = ReleaseEach(action_data, seq)
              /\ keys(action_data') = keys(action_data)
        /\ scen'.op = "consume_all" =>
              /\ \A a \in keys(action_data') :
                    released(action_data', a) /\ consumed(action_data', a)
              /\ \A seq \in Orders(keys(action_data)) :
                    action_data' = ConsumeEach(action_data, seq)
              /\ keys(action_data') = keys(action_data)

C20_WholeMapCalls == [][C20_Step]_vars

\* C20 witness: consume_all has just run on a map of two entries, one of
\* them pressed before the call and one released for some time
C20_Witness ==
    /\ scen.name = "call"
    /\ scen.op = "consume_all"
    /\ \E a \in Known : \E b \in Known \ {a} :
          /\ just_released(action_data, a)
          /\ consumed(action_data, a)
          /\ ~just_released(action_data, b)
          /\ consumed(action_data, b)
          /\ previous_duration(action_data, b) > 0

\* C21: update stores the incoming datum of an action that had no entry as
\* it is: after the call the stored datum equals the batch datum in every
\* field (button state, value, axis_pair, timing, consumed), without
\* press / release edge logic and without a timing flip.
C21_Step ==
    (scen'.name = "updated" /\ ~scen'.ticked) =>
        \A a \in DOMAIN scen'.batch \ DOMAIN action_data :
            /\ a \in DOMAIN action_data'
            /\ action_data'[a] = scen'.batch[a]

C21_UpdateInsertsVerbatim == [][C21_Step]_vars

\* C21 witness: update has just stored, for the only action of the map, a
\* datum that no merge gives: Pressed (not just pressed), consumed, with a
\* timing that has run, an axis pair and its length as value
C21_Witness ==
    /\ scen.name = "updated"
    /\ ~scen.ticked
    /\ \E a \in DOMAIN scen.batch :
          /\ Known = {a}
          /\ action_data[a] = scen.batch[a]
          /\ action_data[a].state = "Pressed"
          /\ action_data[a].consumed
          /\ action_data[a].timing = TimingHeld
          /\ action_data[a].value = 1
          /\ action_data[a].axis_pair # None

\* the diff that the step just taken has applied, as a set: empty if the
\* step is not an apply_diff the history has followed
C22_Applied ==
    IF scen'.name # "diff_pair" THEN {}
    ELSE IF scen'.second = None THEN {scen'.first}
    ELSE IF scen.name = "diff_pair" /\ scen.second = None THEN {scen'.second[1]}
    ELSE {}

\* C22: apply_diff of Released for a, in any state (pressed, released,
\* consumed or without an entry), leaves a released and not consumed with
\* value 0 and no axis pair, its button state, timing and consumed being
\* what release(a) gives; apply_diff of Pressed for an action that is not
\* consumed leaves it pressed with value 1.
C22_Step ==
    \A diff \in C22_Applied :
        LET a == diff.action
        IN /\ diff.kind = "Released" =>
                /\ released(action_data', a)
                /\ ~consumed(action_data', a)
                /\ value(action_data', a) = 0
                /\ axis_pair(action_data', a) = None
                /\ action_data'[a].state = release(action_data, a)[a].state
                /\ action_data'[a].timing = release(action_data, a)[a].timing
                /\ action_data'[a].consumed = release(action_data, a)[a].consumed
           /\ (diff.kind = "Pressed" /\ ~consumed(action_data, a)) =>
                /\ pressed(action_data', a)
                /\ value(action_data', a) = 1

C22_DiffReleasedAndPressed == [][C22_Step]_vars

\* C22 witness: a Released diff has just been applied to an action that was
\* consumed after its timing had run (the timing still stopped, the previous
\* duration kept), and has cleared the consumption, the value and the axis
\* pair
C22_Witness ==
    /\ scen.name = "diff_pair"
    /\ scen.second = None
    /\ scen.first.kind = "Released"
    /\ LET a == scen.first.action
       IN /\ released(action_data, a)
          /\ ~just_released(action_data, a)
          /\ ~consumed(action_data, a)
          /\ instant_started(action_data, a) = None
          /\ previous_duration(action_data, a) > 0
          /\ value(action_data, a) = 0
          /\ axis_pair(action_data, a) = None

\* C23: right after any tick, whatever came before it, no action is just
\* pressed or just released, and get_just_pressed and get_just_released
\* are empty; this holds of consumed actions too, whose timing tick skips.
C23_NoJustAfterTick ==
    (scen.name = "call" /\ scen.op = "tick") =>
        /\ get_just_pressed(action_data) = {}
        /\ get_just_released(action_data) = {}
        /\ \A a \in Actions :
              /\ ~just_pressed(action_data, a)
              /\ ~just_released(action_data, a)

\* C23 witness: tick has just run over a consumed action, whose timing has
\* not started, and over an action pressed in the frame this tick ends,
\* whose timing starts at the instant of the tick
C23_Witness ==
    /\ scen.name = "call"
    /\ scen.op = "tick"
    /\ \E a \in Known : \E b \in Known \ {a} :
          /\ consumed(action_data, a)
          /\ instant_started(action_data, a) = None
          /\ pressed(action_data, b)
          /\ instant_started(action_data, b) = Some(now)
          /\ now > 0

\* C24: tick changes the just-* flags and the timing only: for every action
\* pressed, released, consumed, value and axis_pair read the same before
\* and after the tick, and the key set is the same.
C24_Step ==
    (scen'.name = "call" /\ scen'.op = "tick") =>
        /\ keys(action_data') = keys(action_data)
        /\ \A a \in Actions :
              /\ pressed(action_data', a) = pressed(action_data, a)
              /\ released(action_data', a) = released(action_data, a)
              /\ consumed(action_data', a) = consumed(action_data, a)
              /\ value(action_data', a) = value(action_data, a)
              /\ axis_pair(action_data', a) = axis_pair(action_data, a)

C24_TickFrame == [][C24_Step]_vars

\* C24 witness: tick has just run over a consumed action that carries an
\* axis pair and over a pressed action with a value, held for some time,
\* and both still read so
C24_Witness ==
    /\ scen.name = "call"
    /\ scen.op = "tick"
    /\ \E a \in Known : \E b \in Known \ {a} :
          /\ consumed(action_data, a)
          /\ axis_pair(action_data, a) # None
          /\ pressed(action_data, b)
          /\ value(action_data, b) > 0
          /\ current_duration(action_data, b) > 0

\* C25: apply_diff of Pressed, ValueChanged or AxisPairChanged for a
\* consumed action does not lift the suppression: the button state is
\* released after it, consumed is still true and the timing is what it was;
\* only value and axis_pair are overwritten, so the action reads released
\* with the value of the diff.
C25_Step ==
    \A diff \in C22_Applied :
        LET a == diff.action
        IN (diff.kind # "Released" /\ consumed(action_data, a)) =>
              /\ released(action_data', a)
              /\ consumed(action_data', a)
              /\ action_data'[a].timing = action_data[a].timing
              /\ value(action_data', a) =
                    CASE diff.kind = "Pressed" -> 1
                      [] diff.kind = "ValueChanged" -> diff.value
                      [] diff.kind = "AxisPairChanged" -> axis_length(diff.axis_pair)
              /\ axis_pair(action_data', a) =
                    IF diff.kind = "AxisPairChanged"
                    THEN Some(diff.axis_pair)
                    ELSE axis_pair(action_data, a)

C25_DiffKeepsSuppression == [][C25_Step]_vars

====
